---- MODULE Spec2Model ----
(***************************************************************************)
(* Model of the Solana wallet tracker (src/main.py): the in-memory         *)
(* tracking ledger user_data, the command handlers that mutate it, and the *)
(* background task monitor_wallets that detects a change of a wallet's     *)
(* latest signature and notifies the owning user.                          *)
(*                                                                         *)
(* Both the handlers and the monitor are asyncio coroutines: the code      *)
(* between two awaits runs atomically, so every action below is the code   *)
(* from one await to the next.                                             *)
(***************************************************************************)
EXTENDS Integers, Sequences, FiniteSets, TLC

\* ------------------------------------------------------------------------
\* Values
\* ------------------------------------------------------------------------

\* Python's None where a string is expected (dict.get() of a missing key).
None == "None"

MinAddrLen == 32
MaxAddrLen == 44

\* Two valid addresses (W1 is a proper prefix of W2) and one that is too short.
W1 == "W1aaaaaaaaaaaaaaaaaaaaaaaaaaaaaa"
W2 == W1 \o "b"
WShort == "W1a"

Users == {"u1", "u2"}
Addrs == {W1, W2}
Markers == {"A", "B"}

\* the name a user may give on /add or /rename
GivenName == "cold"

Min(a, b) == IF a < b THEN a ELSE b
Max(a, b) == IF a > b THEN a ELSE b
Abs(x) == IF x < 0 THEN 0 - x ELSE x

\* s[:n] and s[-n:] of Python
Prefix(s, n) == SubSeq(s, 1, Min(n, Len(s)))
Suffix(s, n) == SubSeq(s, Max(1, Len(s) - n + 1), Len(s))

\* f"{s[:4]}...{s[-4:]}"
ShortForm(s) == Prefix(s, 4) \o "..." \o Suffix(s, 4)

\* str.startswith
StartsWith(s, p) == Len(p) <= Len(s) /\ SubSeq(s, 1, Len(p)) = p

\* ------------------------------------------------------------------------
\* Bounds of the exploration
\* ------------------------------------------------------------------------

\* command-handler invocations in one behaviour
MaxCmds == 3
\* command handlers that may be suspended in an await at the same time
MaxHandlers == 2
\* observations of the watched pair that are recorded
MaxHist == 3
\* registrations in one behaviour of the monitor with registrations
MaxAdds == 1
\* get_token_metadata calls explored in sequence
MaxCalls == 3
\* entries of a preTokenBalances or postTokenBalances list
MaxEntries == 2
\* entries of an accountKeys list
MaxKeys == 2
\* commands sent while two users track the same wallet
MaxShared == 2

VARIABLES
    user_data,             \* the dict user_data, in insertion order
    token_metadata_cache,  \* the dict token_metadata_cache
    mon,                   \* monitor_wallets: its position and locals
    handlers,              \* add_wallet invocations suspended in an await
    cmds,                  \* number of command invocations so far
    tick,                  \* parity of the number of monitor cycles started
    sent,                  \* <<n>>: n was handed to bot.send_message in the last step
    replied,               \* what the last step replied: the command, its pair, the outcome
    obs,                   \* the gateway answer the last step consumed, and for which pair
    watch,                 \* <<u, a>>: the pair whose events are recorded (<<>>: none)
    hist,                  \* the first MaxHist observations of the watched pair
    cycle_pairs,           \* the pairs tracked when the running cycle started
    durable                \* the state kept in durable storage (<<>>: none)

vars == <<user_data, token_metadata_cache, mon, handlers, cmds, tick, sent, replied,
          obs, watch, hist, cycle_pairs, durable>>

\* ------------------------------------------------------------------------
\* user_data: {user_id: {'wallets': {address: name}, 'last_signatures': {address: sig}}}
\* A dict is a sequence of entries in insertion order.
\* ------------------------------------------------------------------------

NoSignatures == [a \in Addrs |-> None]

\* {'wallets': {}, 'last_signatures': {}} for a new user
NewUser(u) == [id |-> u, wallets |-> <<>>, last_signatures |-> NoSignatures]

UserIds(ud) == {ud[i].id : i \in 1..Len(ud)}
UserIndex(ud, u) == CHOOSE i \in 1..Len(ud) : ud[i].id = u
Data(ud, u) == ud[UserIndex(ud, u)]

WalletAddrs(ws) == {ws[i].address : i \in 1..Len(ws)}
WalletIndex(ws, a) == CHOOSE i \in 1..Len(ws) : ws[i].address = a
WalletName(ws, a) == ws[WalletIndex(ws, a)].name

\* (mutant) an assignment moves the key to the end
SetWallet_MoveToEnd(ws, a, name) ==
    Append(SelectSeq(ws, LAMBDA w : w.address # a), [address |-> a, name |-> name])

\* d[a] = name on a dict: in place when the key exists, appended otherwise
SetWallet(ws, a, name) ==
    IF a \in WalletAddrs(ws)
    THEN [ws EXCEPT ![WalletIndex(ws, a)].name = name]
    ELSE Append(ws, [address |-> a, name |-> name])

\* del d[a]
DelWallet(ws, a) ==
    LET i == WalletIndex(ws, a)
    IN  SubSeq(ws, 1, i - 1) \o SubSeq(ws, i + 1, Len(ws))

Tracked(ud, u, a) == u \in UserIds(ud) /\ a \in WalletAddrs(Data(ud, u).wallets)

\* user_data[u]['last_signatures'].get(a)
LastSignature(ud, u, a) ==
    IF u \in UserIds(ud) THEN Data(ud, u).last_signatures[a] ELSE None

SetLastSignature(ud, u, a, sig) ==
    [ud EXCEPT ![UserIndex(ud, u)].last_signatures[a] = sig]

\* ------------------------------------------------------------------------
\* get_token_metadata: the cached chain of lookup sources
\* ------------------------------------------------------------------------

WrappedSol == "So11111111111111111111111111111111111111112"
SolSymbol == "SOL"
UnknownSymbol == "UNKNOWN"
DefaultDecimals == 9

\* The lookup methods in the order they are tried: 1 Solscan, 2 Helius,
\* 3 SolanaFM, 4 DexScreener, 5 Jupiter strict list, 6 RPC getAccountInfo,
\* 7 Birdeye.
Sources == 1..7

\* What one source answers for an asset:
\*   "fail"     exception, timeout, non-200 or no record for the asset
\*   "nosym"    a record without a symbol field
\*   "emptysym" a record whose symbol is ''
\*   "sym"      a record with a non-empty symbol
\* (for source 6: anything but "fail" is a parsed account, with its decimals)
Answers == {"fail", "nosym", "emptysym", "sym"}

\* the symbol source i supplies in a "sym" answer
SourceSymbol(i) == <<"S1", "S2", "S3", "S4", "S5", "S6", "S7">>[i]

\* Does the answer r of source i end the chain?  Solscan and Helius test the
\* symbol itself; SolanaFM, DexScreener, Jupiter and Birdeye test that the
\* record exists; the RPC method tests that the account is parsed.
Accepts(i, r) ==
    IF i \in {1, 2} THEN r = "sym" ELSE r # "fail"

\* record.get('symbol', 'UNKNOWN')
AnswerSymbol(i, r) ==
    IF r = "sym" THEN SourceSymbol(i)
    ELSE IF r = "emptysym" THEN ""
    ELSE UnknownSymbol

\* source i answers with a record that has a non-empty symbol (the RPC
\* method reads the mint account, which has none)
SuppliesSymbol(i, r) == i # 6 /\ r = "sym"

\* the record a source's accepted answer is turned into
SourceRecord(mint, i, r) ==
    IF i = 6
    THEN [success |-> FALSE, symbol |-> ShortForm(mint), decimals |-> 6]
    ELSE [success |-> TRUE, symbol |-> AnswerSymbol(i, r), decimals |-> DefaultDecimals]

FallbackRecord(mint) ==
    [success |-> FALSE, symbol |-> ShortForm(mint), decimals |-> DefaultDecimals]

SolRecord == [success |-> TRUE, symbol |-> SolSymbol, decimals |-> DefaultDecimals]

\* the sources whose answer ends the chain
Accepting(resp) == {i \in Sources : Accepts(i, resp[i])}
FirstAccepting(resp) == CHOOSE i \in Accepting(resp) : \A j \in Accepting(resp) : i <= j

\* The record get_token_metadata returns on a cache miss when the sources
\* answer resp, and the sources it has called by then.
LookupRecord(mint, resp) ==
    IF mint = WrappedSol THEN SolRecord
    ELSE IF Accepting(resp) # {} THEN SourceRecord(mint, FirstAccepting(resp), resp[FirstAccepting(resp)])
    ELSE FallbackRecord(mint)

\* (mutant) the first source that fails ends the chain
LookupAttempts_AbortOnFailure(mint, resp) ==
    IF mint = WrappedSol THEN {}
    ELSE LET ends == {i \in Sources : Accepts(i, resp[i]) \/ resp[i] = "fail"}
         IN  IF ends # {} THEN 1..(CHOOSE i \in ends : \A j \in ends : i <= j)
             ELSE Sources

LookupAttempts(mint, resp) ==
    IF mint = WrappedSol THEN {}
    ELSE IF Accepting(resp) # {} THEN 1..FirstAccepting(resp)
    ELSE Sources

\* mint_address in token_metadata_cache
Cached(cache, mint) == cache[mint] # <<>>

\* ------------------------------------------------------------------------
\* parse_token_transfers
\* ------------------------------------------------------------------------

\* 0.001 SOL in lamports (the amounts are compared in SOL: lamports / 10^9)
DustLamports == 1000000

\* f"{owner}_{mint}"
TokenKey(b) == b.owner \o "_" \o b.mint

\* the dict built from a list of token balances: entries without an owner or
\* a mint are left out, a later entry replaces an earlier one with its key
MapKeys(bs) == {TokenKey(bs[i]) : i \in {j \in 1..Len(bs) : bs[j].owner # "" /\ bs[j].mint # ""}}
MapEntry(bs, key) ==
    bs[CHOOSE i \in 1..Len(bs) :
          /\ bs[i].owner # "" /\ bs[i].mint # ""
          /\ TokenKey(bs[i]) = key
          /\ \A j \in (i + 1)..Len(bs) :
                ~(bs[j].owner # "" /\ bs[j].mint # "" /\ TokenKey(bs[j]) = key)]

\* d.get(key, {}).get('amount', 0)
MapAmount(bs, key) == IF key \in MapKeys(bs) THEN MapEntry(bs, key).amount ELSE 0

AllKeys(tx) == MapKeys(tx.preTokenBalances) \cup MapKeys(tx.postTokenBalances)

\* the orders in which a set may be iterated
Orders(S) == {f \in [1..Cardinality(S) -> S] : {f[i] : i \in 1..Cardinality(S)} = S}

TokenTransfer(tx, key) ==
    LET pre == MapAmount(tx.preTokenBalances, key)
        post == MapAmount(tx.postTokenBalances, key)
        mint == IF key \in MapKeys(tx.postTokenBalances)
                THEN MapEntry(tx.postTokenBalances, key).mint
                ELSE MapEntry(tx.preTokenBalances, key).mint
    IN  [mint |-> mint, change |-> post - pre,
         type |-> IF post - pre > 0 THEN "BUY" ELSE "SELL",
         amount |-> Abs(post - pre), is_sol |-> FALSE]

\* the loop over all_keys, visited in the given order
RECURSIVE TokenTransfers(_, _, _)
TokenTransfers(tx, wallet_address, order) ==
    IF order = <<>> THEN <<>>
    ELSE LET key == Head(order)
             rest == TokenTransfers(tx, wallet_address, Tail(order))
         IN  IF ~StartsWith(key, wallet_address) THEN rest
             ELSE IF MapAmount(tx.preTokenBalances, key) = MapAmount(tx.postTokenBalances, key) THEN rest
             ELSE <<TokenTransfer(tx, key)>> \o rest

\* key if isinstance(key, str) else key.get('pubkey')
KeyAddr(k) == k.pubkey

\* The balances are divided by 10^9 and subtracted as IEEE doubles.  For
\* integer lamports the rounding error is far below one lamport, so the
\* comparison with 0.001 is the comparison of the lamports with 10^6 except
\* when they differ by exactly 10^6: then the rounding decides.  Of the
\* balances of Lamports that are 10^6 apart, 0.01 - 0.009 =
\* 0.0010000000000000009 exceeds 0.001 and 2.0 - 1.999 =
\* 0.0009999999999998899 does not.
Lamports == {0, 5000000, 9000000, 10000000, 999995000, 1000000000, 1999000000, 2000000000}
RoundsAboveDust == {<<9000000, 10000000>>, <<10000000, 9000000>>}

\* (mutant) every change of the balance counts
AboveDust_AnyChange(pre, post) == post # pre

\* (mutant) a change of 0.001 counts
AboveDust_Inclusive(pre, post) == Abs(post - pre) >= DustLamports

\* abs(sol_change) > 0.001
AboveDust(pre, post) ==
    \/ Abs(post - pre) > DustLamports
    \/ Abs(post - pre) = DustLamports /\ <<pre, post>> \in RoundsAboveDust

\* (mutant) the loop goes on after the first key equal to the wallet
SolTransfers_NoBreak(tx, wallet_address) ==
    LET hits == {i \in 1..Len(tx.accountKeys) :
                    /\ KeyAddr(tx.accountKeys[i]) = wallet_address
                    /\ i <= Len(tx.preBalances) /\ i <= Len(tx.postBalances)
                    /\ AboveDust(tx.preBalances[i], tx.postBalances[i])}
        event(i) == [mint |-> SolSymbol,
                     change |-> tx.postBalances[i] - tx.preBalances[i],
                     type |-> IF tx.postBalances[i] > tx.preBalances[i] THEN "RECEIVE" ELSE "SEND",
                     amount |-> Abs(tx.postBalances[i] - tx.preBalances[i]),
                     is_sol |-> TRUE]
    IN  [k \in 1..Cardinality(hits) |->
            event(CHOOSE i \in hits : Cardinality({j \in hits : j <= i}) = k)]

\* the loop over account_keys: the first key equal to the wallet decides
SolTransfers(tx, wallet_address) ==
    LET hits == {i \in 1..Len(tx.accountKeys) : KeyAddr(tx.accountKeys[i]) = wallet_address}
    IN  IF hits = {} THEN <<>>
        ELSE LET i == CHOOSE h \in hits : \A g \in hits : h <= g
             IN  IF i <= Len(tx.preBalances) /\ i <= Len(tx.postBalances)
                    /\ AboveDust(tx.preBalances[i], tx.postBalances[i])
                 THEN <<[mint |-> SolSymbol,
                         change |-> tx.postBalances[i] - tx.preBalances[i],
                         type |-> IF tx.postBalances[i] > tx.preBalances[i] THEN "RECEIVE" ELSE "SEND",
                         amount |-> Abs(tx.postBalances[i] - tx.preBalances[i]),
                         is_sol |-> TRUE]>>
                 ELSE <<>>

\* tx_data.get('meta') of a transaction without the key, with null, with {}
\* and with the balance-change metadata; the first three are falsy
MetaKinds == {"absent", "null", "empty", "present"}
HasMeta(tx) == tx.meta = "present"

\* (mutant) the balances are read without the test of the metadata
parse_token_transfers_NoMetaTest(tx, wallet_address, order) ==
    TokenTransfers(tx, wallet_address, order) \o SolTransfers(tx, wallet_address)

parse_token_transfers(tx, wallet_address, order) ==
    IF ~HasMeta(tx) THEN <<>>
    ELSE TokenTransfers(tx, wallet_address, order) \o SolTransfers(tx, wallet_address)

\* ------------------------------------------------------------------------
\* What the gateway and the lookup sources may answer
\* ------------------------------------------------------------------------

Usdc == "EPjFWdd5AufqSSqeM2qN1xzybapC8G4wEGGkZwyTDt1v"

\* get_recent_transactions(address, 1): a failure, an empty list, or the
\* latest transaction (blockTime is null when the node does not know the
\* block time; failed is "err is not None")
RecentResults ==
    {[success |-> FALSE, transactions |-> <<>>],
     [success |-> TRUE, transactions |-> <<>>]}
    \cup {[success |-> TRUE,
           transactions |-> <<[signature |-> m, blockTime |-> bt, failed |-> FALSE]>>] :
              m \in Markers, bt \in BOOLEAN}
    \cup {[success |-> TRUE,
           transactions |-> <<[signature |-> "B", blockTime |-> TRUE, failed |-> TRUE]>>]}

\* a swap seen by W1 (USDC 100 -> 150, native 2.0 -> 1.999) and a native
\* payment from W2 to W1
TxSwap ==
    [meta |-> "present",
     preTokenBalances |-> <<[owner |-> W1, mint |-> Usdc, amount |-> 100]>>,
     postTokenBalances |-> <<[owner |-> W1, mint |-> Usdc, amount |-> 150]>>,
     accountKeys |-> <<[parsed |-> TRUE, pubkey |-> W1], [parsed |-> FALSE, pubkey |-> W2]>>,
     preBalances |-> <<2000000000, 5000000>>,
     postBalances |-> <<1999000000, 5000000>>]

TxPay ==
    [meta |-> "present",
     preTokenBalances |-> <<>>,
     postTokenBalances |-> <<>>,
     accountKeys |-> <<[parsed |-> FALSE, pubkey |-> W2], [parsed |-> FALSE, pubkey |-> W1]>>,
     preBalances |-> <<2000000000, 0>>,
     postBalances |-> <<999995000, 1000000000>>]

\* get_transaction_details(signature): a failure or the transaction
DetailResults ==
    {[success |-> FALSE, transaction |-> TxPay]}
    \cup {[success |-> TRUE, transaction |-> tx] : tx \in {TxSwap, TxPay}}

AllFail == [i \in Sources |-> "fail"]

\* the answers of the sources to one get_token_metadata call of the monitor
MonAnswers == {AllFail, [AllFail EXCEPT ![1] = "sym"]}

Mints == {Usdc}

\* ------------------------------------------------------------------------
\* Observation of a step
\* ------------------------------------------------------------------------

NoObs ==
    [by |-> "none", user_id |-> None, address |-> "", ok |-> FALSE,
     signature |-> None, blockTime |-> FALSE, prev |-> None]

\* the answer res of get_recent_transactions consumed for (u, a), whose stored
\* marker was prev
RecentObs(by, u, a, res, prev) ==
    IF res.success /\ res.transactions # <<>>
    THEN [by |-> by, user_id |-> u, address |-> a, ok |-> TRUE,
          signature |-> res.transactions[1].signature,
          blockTime |-> res.transactions[1].blockTime, prev |-> prev]
    ELSE [by |-> by, user_id |-> u, address |-> a, ok |-> FALSE,
          signature |-> None, blockTime |-> FALSE, prev |-> prev]

\* One entry of hist per answered fetch of the monitor for the watched pair:
\* the marker fetched, the marker stored before, and the number of messages
\* handed to the bot for it (2: two or more).  After MaxHist entries one last
\* entry with marker None closes the record.
Observation(o) == [marker |-> o.signature, prev |-> o.prev, notified |-> 0]
Closing(o) == [marker |-> None, prev |-> o.prev, notified |-> 0]

RecordFetch(h, o) ==
    IF Len(h) < MaxHist THEN Append(h, Observation(o))
    ELSE IF Len(h) = MaxHist THEN Append(h, Closing(o))
    ELSE h

RecordNote(h) ==
    IF h # <<>> /\ Len(h) <= MaxHist
    THEN [h EXCEPT ![Len(h)].notified = Min(@ + 1, 2)]
    ELSE h

\* the reply of a command step (outcome None: the handler is suspended in
\* an await and has not replied yet); a step of the monitor replies nothing
Reply(cmd, u, a, outcome) == [cmd |-> cmd, user_id |-> u, address |-> a, outcome |-> outcome]
NoReply == Reply("none", None, "", None)

\* the pairs (user, address) tracked in ud
TrackedPairs(ud) == {p \in Users \X Addrs : Tracked(ud, p[1], p[2])}

\* a step of the monitor: the pairs tracked at the start of the cycle are
\* noted when the task wakes up and forgotten when it goes to sleep
Cycle ==
    cycle_pairs' = IF mon'.pc = "sleep" THEN {}
                   ELSE IF mon.pc = "sleep" THEN TrackedPairs(user_data)
                   ELSE cycle_pairs

\* a step that consumes no gateway answer and hands nothing to the bot
Quiet == sent' = <<>> /\ obs' = NoObs /\ UNCHANGED <<watch, hist>>

\* ------------------------------------------------------------------------
\* monitor_wallets
\* ------------------------------------------------------------------------

NormalDelay == 15
BackoffDelay == 30

\* the task suspended in asyncio.sleep(d); its locals are dead
Sleeping(d) ==
    [pc |-> "sleep", delay |-> d, users |-> <<>>, wallets |-> <<>>,
     user_id |-> None, wallet_address |-> "", wallet_name |-> "",
     latest_signature |-> None, failed |-> FALSE, transfers |-> <<>>, lines |-> <<>>]

\* (mutant) the idle branch leaves the loop
IdleSleep_Returns == [Sleeping(0) EXCEPT !.pc = "done"]

\* if not user_data: await asyncio.sleep(15); continue
IdleSleep == Sleeping(NormalDelay)

\* after the two for loops: the sleep between two cycles
InterCycleSleep == Sleeping(NormalDelay)

\* the except clause of the outer try: a longer sleep, then the loop again
LoopBackoff == Sleeping(BackoffDelay)

\* list(user_data.items()): the users, each with a reference to its live dict
UserSnapshot(ud) == [i \in 1..Len(ud) |-> ud[i].id]

\* The two for loops, from the end of one wallet's body to the next awaited
\* get_recent_transactions: the next wallet of the current user's snapshot,
\* else the next user of the user snapshot, whose wallets are listed only now
\* (a user without wallets is skipped), else the end of the cycle.
\* (mutant) the first wallet of the next user is skipped
RECURSIVE NextWallet_OffByOne(_, _, _, _)
NextWallet_OffByOne(ud, users, user_id, wallets) ==
    IF wallets # <<>>
    THEN [Sleeping(0) EXCEPT !.pc = "await_recent", !.users = users,
                             !.wallets = Tail(wallets), !.user_id = user_id,
                             !.wallet_address = Head(wallets).address,
                             !.wallet_name = Head(wallets).name]
    ELSE IF users = <<>> THEN Sleeping(NormalDelay)
    ELSE IF Len(Data(ud, Head(users)).wallets) > 1
    THEN NextWallet_OffByOne(ud, Tail(users), Head(users), Tail(Data(ud, Head(users)).wallets))
    ELSE NextWallet_OffByOne(ud, Tail(users), Head(users), Data(ud, Head(users)).wallets)

RECURSIVE NextWallet(_, _, _, _)
NextWallet(ud, users, user_id, wallets) ==
    IF wallets # <<>>
    THEN [Sleeping(0) EXCEPT !.pc = "await_recent", !.users = users,
                             !.wallets = Tail(wallets), !.user_id = user_id,
                             !.wallet_address = Head(wallets).address,
                             !.wallet_name = Head(wallets).name]
    ELSE IF users = <<>> THEN InterCycleSleep
    ELSE NextWallet(ud, Tail(users), Head(users), Data(ud, Head(users)).wallets)

\* (mutant) no per-wallet handler: the exception reaches the outer try
PerWalletExcept_Propagates(m, ud) == LoopBackoff

\* the except clause of the per-wallet try: log, go on with the next wallet
PerWalletExcept(m, ud) == NextWallet(ud, m.users, m.user_id, m.wallets)

\* (mutant) break instead of continue: the user's other wallets are skipped
SkipWallet_Break(m, ud) == NextWallet(ud, m.users, m.user_id, <<>>)

\* if not tx_result['success'] or not tx_result['transactions']: continue
SkipWallet(m, ud) == NextWallet(ud, m.users, m.user_id, m.wallets)

\* the end of the per-wallet body
EndOfBody(m, ud) == NextWallet(ud, m.users, m.user_id, m.wallets)

\* the message composed for one change
Notification(m, lines) ==
    [chat_id |-> m.user_id, wallet_name |-> m.wallet_name,
     wallet_address |-> m.wallet_address, signature |-> m.latest_signature,
     failed |-> m.failed, movements |-> lines]

MovementLine(t, symbol) == [type |-> t.type, amount |-> t.amount, symbol |-> symbol]

\* The loop over transfers up to the next suspension: a SOL transfer and a
\* token whose metadata is cached are rendered at once; an uncached token
\* suspends the task in get_token_metadata; after the last transfer the
\* message is handed to bot.send_message.
RECURSIVE Render(_, _, _, _)
Render(m, cache, transfers, lines) ==
    IF transfers = <<>>
    THEN [m EXCEPT !.pc = "await_send", !.transfers = <<>>, !.lines = lines]
    ELSE IF Head(transfers).is_sol
    THEN Render(m, cache, Tail(transfers), Append(lines, MovementLine(Head(transfers), SolSymbol)))
    ELSE IF Cached(cache, Head(transfers).mint)
    THEN Render(m, cache, Tail(transfers),
                Append(lines, MovementLine(Head(transfers), cache[Head(transfers).mint][1].symbol)))
    ELSE [m EXCEPT !.pc = "await_meta", !.transfers = transfers, !.lines = lines]

\* (mutant) a change whose details cannot be fetched is dropped
AfterDetails_DropOnFailure(m, cache, res, order) ==
    IF res.success
    THEN Render(m, cache, parse_token_transfers(res.transaction, m.wallet_address, order), <<>>)
    ELSE EndOfBody(m, user_data)

\* tx_details = await get_transaction_details(...); if tx_details['success']:
\* transfers = parse_token_transfers(...); ...; then the message is sent
AfterDetails(m, cache, res, order) ==
    Render(m, cache,
           IF res.success THEN parse_token_transfers(res.transaction, m.wallet_address, order)
           ELSE <<>>,
           <<>>)

\* what the step hands to bot.send_message
Handed(m) == IF m.pc = "await_send" THEN <<Notification(m, m.lines)>> ELSE <<>>

\* the events of the watched pair
Watched(m) == watch = <<m.user_id, m.wallet_address>>

\* the step of the monitor that may hand a message to the bot
Hands ==
    /\ sent' = Handed(mon')
    /\ hist' = IF Handed(mon') # <<>> /\ Watched(mon') THEN RecordNote(hist) ELSE hist
    /\ UNCHANGED watch

\* while True: try: if not user_data: await asyncio.sleep(15); continue
\* for user_id, data in list(user_data.items()): ...
MonWake ==
    /\ mon.pc = "sleep"
    /\ mon' = IF user_data = <<>> THEN IdleSleep
              ELSE NextWallet(user_data, UserSnapshot(user_data), None, <<>>)
    /\ tick' = 1 - tick
    /\ Quiet /\ replied' = NoReply
    /\ UNCHANGED <<user_data, token_metadata_cache, handlers, cmds>>
    /\ Cycle
    /\ UNCHANGED durable

\* a cycle that raises outside the per-wallet try
MonLoopFailure ==
    /\ mon.pc = "sleep"
    /\ user_data # <<>>
    /\ mon' = LoopBackoff
    /\ tick' = 1 - tick
    /\ Quiet /\ replied' = NoReply
    /\ UNCHANGED <<user_data, token_metadata_cache, handlers, cmds>>
    /\ Cycle
    /\ UNCHANGED durable

\* (mutant) the first marker is not recorded
RecordBaseline_Skip(ud, u, a, sig) == ud

\* elif not last_known_signature: the first marker is recorded silently
RecordBaseline(ud, u, a, sig) == SetLastSignature(ud, u, a, sig)

\* (mutant) the marker is not advanced before the message is sent
AdvanceMarker_Deferred(ud, u, a, sig) == ud

\* data['last_signatures'][wallet_address] = latest_signature
AdvanceMarker(ud, u, a, sig) == SetLastSignature(ud, u, a, sig)

\* (mutant) the test that a marker is stored is missing
IsChange_NoGuard(last, latest) == latest # last

\* (mutant) == in place of !=: a repeated marker counts as the change
IsChange_Inverted(last, latest) == last # None /\ latest = last

\* (mutant) the comparison with the stored marker is missing
IsChange_AnyMarker(last, latest) == last # None

\* if last_known_signature and latest_signature != last_known_signature
IsChange(last, latest) == last # None /\ latest # last

\* the per-wallet body from the return of get_recent_transactions to the
\* call of get_transaction_details
MonRecentDone(res) ==
    /\ mon.pc = "await_recent"
    /\ sent' = <<>> /\ replied' = NoReply
    /\ obs' = RecentObs("monitor", mon.user_id, mon.wallet_address, res,
                        LastSignature(user_data, mon.user_id, mon.wallet_address))
    /\ hist' = IF obs'.ok /\ Watched(mon) THEN RecordFetch(hist, obs') ELSE hist
    /\ UNCHANGED <<token_metadata_cache, handlers, cmds, tick, watch>>
    /\ IF ~res.success \/ res.transactions = <<>>
       THEN /\ mon' = SkipWallet(mon, user_data)
            /\ UNCHANGED user_data
       ELSE LET latest_tx == res.transactions[1]
                last == LastSignature(user_data, mon.user_id, mon.wallet_address)
            IN  IF IsChange(last, latest_tx.signature)
                THEN /\ user_data' = AdvanceMarker(user_data, mon.user_id,
                                                   mon.wallet_address, latest_tx.signature)
                     /\ mon' = IF latest_tx.blockTime
                               THEN [mon EXCEPT !.pc = "await_details",
                                                !.latest_signature = latest_tx.signature,
                                                !.failed = latest_tx.failed]
                               ELSE PerWalletExcept(mon, user_data')
                ELSE IF last = None
                THEN /\ user_data' = RecordBaseline(user_data, mon.user_id,
                                                    mon.wallet_address, latest_tx.signature)
                     /\ mon' = EndOfBody(mon, user_data')
                ELSE /\ mon' = EndOfBody(mon, user_data)
                     /\ UNCHANGED user_data
    /\ Cycle
    /\ UNCHANGED durable

\* from the return of get_transaction_details to the next suspension
MonDetailsDone(res, order) ==
    /\ mon.pc = "await_details"
    /\ order \in Orders(AllKeys(res.transaction))
    /\ mon' = AfterDetails(mon, token_metadata_cache, res, order)
    /\ Hands
    /\ obs' = [NoObs EXCEPT !.by = "details", !.user_id = mon.user_id,
                            !.address = mon.wallet_address, !.ok = res.success]
    /\ replied' = NoReply
    /\ UNCHANGED <<user_data, token_metadata_cache, handlers, cmds, tick>>
    /\ Cycle
    /\ UNCHANGED durable

\* from the return of get_token_metadata (a cache miss) to the next suspension
MonMetaDone(resp) ==
    /\ mon.pc = "await_meta"
    /\ LET mint == Head(mon.transfers).mint
           rec == LookupRecord(mint, resp)
       IN  /\ token_metadata_cache' = [token_metadata_cache EXCEPT ![mint] = <<rec>>]
           /\ mon' = Render(mon, token_metadata_cache', mon.transfers, mon.lines)
    /\ Hands
    /\ obs' = NoObs
    /\ replied' = NoReply
    /\ UNCHANGED <<user_data, handlers, cmds, tick>>
    /\ Cycle
    /\ UNCHANGED durable

\* bot.send_message returned
MonSendOk ==
    /\ mon.pc = "await_send"
    /\ mon' = EndOfBody(mon, user_data)
    /\ Quiet /\ replied' = NoReply
    /\ UNCHANGED <<user_data, token_metadata_cache, handlers, cmds, tick>>
    /\ Cycle
    /\ UNCHANGED durable

\* bot.send_message raised: the except clause of the inner try logs it
MonSendFailed ==
    /\ mon.pc = "await_send"
    /\ mon' = EndOfBody(mon, user_data)
    /\ Quiet /\ replied' = NoReply
    /\ UNCHANGED <<user_data, token_metadata_cache, handlers, cmds, tick>>
    /\ Cycle
    /\ UNCHANGED durable

Monitor ==
    \/ MonWake
    \/ MonLoopFailure
    \/ \E res \in RecentResults : MonRecentDone(res)
    \/ \E res \in DetailResults : \E order \in Orders(AllKeys(res.transaction)) : MonDetailsDone(res, order)
    \/ \E resp \in MonAnswers : MonMetaDone(resp)
    \/ MonSendOk
    \/ MonSendFailed

\* ------------------------------------------------------------------------
\* Command handlers
\* ------------------------------------------------------------------------

\* if user_id not in user_data: user_data[user_id] = {...}
EnsureUser(ud, u) == IF u \in UserIds(ud) THEN ud ELSE Append(ud, NewUser(u))

\* len(wallet_address) < 32 or len(wallet_address) > 44
InvalidAddress(a) == Len(a) < MinAddrLen \/ Len(a) > MaxAddrLen

RemoveAt(seq, i) == SubSeq(seq, 1, i - 1) \o SubSeq(seq, i + 1, Len(seq))

\* (mutant) the test for a wallet that is already tracked is missing
AddStart_NoDuplicateTest(u, a, name) ==
    /\ cmds < MaxCmds
    /\ Len(handlers) < MaxHandlers
    /\ cmds' = cmds + 1
    /\ Quiet
    /\ UNCHANGED <<token_metadata_cache, mon, tick, cycle_pairs, durable>>
    /\ IF InvalidAddress(a)
       THEN /\ replied' = Reply("add", u, a, "invalid")
            /\ UNCHANGED <<user_data, handlers>>
       ELSE /\ user_data' = EnsureUser(user_data, u)
            /\ replied' = Reply("add", u, a, None)
            /\ handlers' = Append(handlers,
                                  [pc |-> "await_balance", user_id |-> u,
                                   wallet_address |-> a, wallet_name |-> name])

\* add_wallet up to the awaited get_wallet_balance (name = "": none given)
AddStart(u, a, name) ==
    /\ cmds < MaxCmds
    /\ UNCHANGED <<cycle_pairs, durable>>
    /\ Len(handlers) < MaxHandlers
    /\ cmds' = cmds + 1
    /\ Quiet
    /\ UNCHANGED <<token_metadata_cache, mon, tick>>
    /\ IF InvalidAddress(a)
       THEN /\ replied' = Reply("add", u, a, "invalid")
            /\ UNCHANGED <<user_data, handlers>>
       ELSE /\ user_data' = EnsureUser(user_data, u)
            /\ IF Tracked(user_data', u, a)
               THEN /\ replied' = Reply("add", u, a, "already_tracked")
                    /\ UNCHANGED handlers
               ELSE /\ replied' = Reply("add", u, a, None)
                    /\ handlers' = Append(handlers,
                                          [pc |-> "await_balance", user_id |-> u,
                                           wallet_address |-> a, wallet_name |-> name])

\* add_wallet from the return of get_wallet_balance to the awaited
\* get_recent_transactions
AddBalanceDone(i, success) ==
    /\ i \in 1..Len(handlers)
    /\ UNCHANGED <<cycle_pairs, durable>>
    /\ handlers[i].pc = "await_balance"
    /\ Quiet
    /\ UNCHANGED <<token_metadata_cache, mon, cmds, tick>>
    /\ LET h == handlers[i]
           name == IF h.wallet_name = "" THEN ShortForm(h.wallet_address) ELSE h.wallet_name
       IN  IF ~success
           THEN /\ replied' = Reply("add", h.user_id, h.wallet_address, "unverified")
                /\ handlers' = RemoveAt(handlers, i)
                /\ UNCHANGED user_data
           ELSE /\ replied' = Reply("add", h.user_id, h.wallet_address, None)
                /\ user_data' = [user_data EXCEPT ![UserIndex(user_data, h.user_id)].wallets =
                                     SetWallet(@, h.wallet_address, name)]
                /\ handlers' = [handlers EXCEPT ![i].pc = "await_tx", ![i].wallet_name = name]

\* add_wallet from the return of get_recent_transactions to its end
AddTxDone(i, res) ==
    /\ i \in 1..Len(handlers)
    /\ UNCHANGED <<cycle_pairs, durable>>
    /\ handlers[i].pc = "await_tx"
    /\ sent' = <<>>
    /\ replied' = Reply("add", handlers[i].user_id, handlers[i].wallet_address, "tracking")
    /\ obs' = RecentObs("bootstrap", handlers[i].user_id, handlers[i].wallet_address, res,
                        LastSignature(user_data, handlers[i].user_id, handlers[i].wallet_address))
    /\ UNCHANGED <<token_metadata_cache, mon, cmds, tick, watch, hist>>
    /\ handlers' = RemoveAt(handlers, i)
    /\ LET h == handlers[i]
       IN  IF res.success /\ res.transactions # <<>>
           THEN user_data' = SetLastSignature(user_data, h.user_id, h.wallet_address,
                                              res.transactions[1].signature)
           ELSE UNCHANGED user_data

\* (mutant) the name is stored without the test that the pair is tracked
RenameWallet_Upsert(u, a, new_name) ==
    /\ cmds < MaxCmds
    /\ UNCHANGED <<cycle_pairs, durable>>
    /\ cmds' = cmds + 1
    /\ Quiet
    /\ UNCHANGED <<token_metadata_cache, mon, handlers, tick>>
    /\ replied' = Reply("rename", u, a, IF Tracked(user_data, u, a) THEN "renamed" ELSE "not_tracked")
    /\ user_data' = [EnsureUser(user_data, u) EXCEPT
                         ![UserIndex(EnsureUser(user_data, u), u)].wallets =
                             SetWallet(@, a, new_name)]

\* rename_wallet
RenameWallet(u, a, new_name) ==
    /\ cmds < MaxCmds
    /\ UNCHANGED <<cycle_pairs, durable>>
    /\ cmds' = cmds + 1
    /\ Quiet
    /\ UNCHANGED <<token_metadata_cache, mon, handlers, tick>>
    /\ IF ~Tracked(user_data, u, a)
       THEN /\ replied' = Reply("rename", u, a, "not_tracked")
            /\ UNCHANGED user_data
       ELSE /\ replied' = Reply("rename", u, a, "renamed")
            /\ user_data' = [user_data EXCEPT ![UserIndex(user_data, u)].wallets =
                                 SetWallet(@, a, new_name)]

\* (mutant) the entry of an unknown user is created, as add_wallet does
RemoveWallet_CreatesUser(u, a) ==
    /\ cmds < MaxCmds
    /\ cmds' = cmds + 1
    /\ Quiet
    /\ UNCHANGED <<token_metadata_cache, mon, handlers, tick, cycle_pairs, durable>>
    /\ IF ~Tracked(EnsureUser(user_data, u), u, a)
       THEN /\ replied' = Reply("remove", u, a, "not_tracked")
            /\ user_data' = EnsureUser(user_data, u)
       ELSE /\ replied' = Reply("remove", u, a, "removed")
            /\ user_data' = [user_data EXCEPT
                                 ![UserIndex(user_data, u)].wallets = DelWallet(@, a),
                                 ![UserIndex(user_data, u)].last_signatures[a] = None]

\* remove_wallet
RemoveWallet(u, a) ==
    /\ cmds < MaxCmds
    /\ UNCHANGED <<cycle_pairs, durable>>
    /\ cmds' = cmds + 1
    /\ Quiet
    /\ UNCHANGED <<token_metadata_cache, mon, handlers, tick>>
    /\ IF ~Tracked(user_data, u, a)
       THEN /\ replied' = Reply("remove", u, a, "not_tracked")
            /\ UNCHANGED user_data
       ELSE /\ replied' = Reply("remove", u, a, "removed")
            /\ user_data' = [user_data EXCEPT
                                 ![UserIndex(user_data, u)].wallets = DelWallet(@, a),
                                 ![UserIndex(user_data, u)].last_signatures[a] = None]

\* list_wallets: the addresses in the order of wallets.items()
ListFor(ud, u) ==
    IF u \in UserIds(ud) THEN [i \in 1..Len(Data(ud, u).wallets) |-> Data(ud, u).wallets[i].address]
    ELSE <<>>

\* the pairs the commands of the exploration are about
CmdTargets == {<<"u1", W1>>}

Commands ==
    \/ \E t \in CmdTargets : AddStart(t[1], t[2], "")
    \/ \E i \in 1..MaxHandlers, success \in BOOLEAN : AddBalanceDone(i, success)
    \/ \E i \in 1..MaxHandlers, res \in RecentResults : AddTxDone(i, res)
    \/ \E t \in CmdTargets : RenameWallet(t[1], t[2], GivenName)
    \/ \E t \in CmdTargets : RemoveWallet(t[1], t[2])

\* ------------------------------------------------------------------------
\* The bot: command handlers interleaved with the monitor at their awaits
\* ------------------------------------------------------------------------

InitTasks ==
    /\ token_metadata_cache = [m \in Mints |-> <<>>]
    /\ mon = Sleeping(0)
    /\ handlers = <<>>
    /\ cmds = 0
    /\ tick = 0
    /\ sent = <<>>
    /\ replied = NoReply
    /\ obs = NoObs
    /\ hist = <<>>
    /\ cycle_pairs = {}

Init ==
    /\ user_data = <<>>
    /\ durable = <<>>
    /\ watch = <<>>
    /\ InitTasks

Next == Monitor \/ Commands

Spec == Init /\ [][Next]_vars

\* ------------------------------------------------------------------------
\* get_token_metadata called in sequence: each call runs to its return before
\* the next one starts.  hist records the calls: the asset, the record
\* returned, the sources the call has requested, what the sources answered,
\* and whether the call found the asset unresolvable (it asked the sources
\* and none of them answered with a symbol).
\* ------------------------------------------------------------------------

ResolveMints == {Usdc, WrappedSol}

\* the answers of the sources to one call: at most two of them do not fail
ResolveAnswers ==
    {resp \in [Sources -> Answers] : Cardinality({i \in Sources : resp[i] # "fail"}) <= 2}

\* every source fails or answers without a symbol
Unresolvable(resp) == \A i \in Sources : ~SuppliesSymbol(i, resp[i])

\* a call that requests no source has no answers
NoAnswers == <<>>

Call(mint, record, attempted, answers) ==
    [mint |-> mint, record |-> record, attempted |-> attempted, answers |-> answers,
     unresolvable |-> answers # NoAnswers /\ Unresolvable(answers)]

\* get_token_metadata(mint), from the call to the return
Resolve(mint) ==
    /\ cmds < MaxCalls
    /\ cmds' = cmds + 1
    /\ IF Cached(token_metadata_cache, mint)
       THEN /\ obs' = Call(mint, token_metadata_cache[mint][1], {}, NoAnswers)
            /\ UNCHANGED token_metadata_cache
       ELSE IF mint = WrappedSol
       THEN /\ obs' = Call(mint, SolRecord, {}, NoAnswers)
            /\ token_metadata_cache' = [token_metadata_cache EXCEPT ![mint] = <<SolRecord>>]
       ELSE \E resp \in ResolveAnswers :
               /\ obs' = Call(mint, LookupRecord(mint, resp), LookupAttempts(mint, resp), resp)
               /\ token_metadata_cache' =
                      [token_metadata_cache EXCEPT ![mint] = <<LookupRecord(mint, resp)>>]
    /\ hist' = Append(hist, obs')
    /\ UNCHANGED <<user_data, mon, handlers, tick, sent, replied, watch, cycle_pairs, durable>>

InitResolve ==
    /\ token_metadata_cache = [m \in ResolveMints |-> <<>>]
    /\ user_data = <<>>
    /\ durable = <<>>
    /\ watch = <<>>
    /\ mon = Sleeping(0)
    /\ handlers = <<>>
    /\ cmds = 0
    /\ tick = 0
    /\ sent = <<>>
    /\ replied = NoReply
    /\ obs = NoObs
    /\ hist = <<>>
    /\ cycle_pairs = {}

NextResolve == \E mint \in ResolveMints : Resolve(mint)

SpecResolve == InitResolve /\ [][NextResolve]_vars

\* ------------------------------------------------------------------------
\* get_token_metadata called by several tasks (the monitor, a /recent
\* handler): a call is suspended at the request to each source, and other
\* calls run meanwhile.  handlers holds the calls in flight: the asset, the
\* source whose answer is awaited, and the answers received so far.  hist
\* records the calls that have returned, as in SpecResolve; a source that
\* was not asked is entered with the answer "fail".
\* ------------------------------------------------------------------------

\* a call suspended at the request to source i, after the answers given
Pending(mint, i, given) ==
    [pc |-> "await_source", mint |-> mint, source |-> i, given |-> given]

AnswersOf(given) ==
    [i \in Sources |-> IF i <= Len(given) THEN given[i] ELSE "fail"]

\* the call has returned record after asking the sources 1..n
Returned(mint, record, n, given) ==
    Call(mint, record, 1..n, IF n = 0 THEN NoAnswers ELSE AnswersOf(given))

\* get_token_metadata(mint) from the call to its first suspension: the
\* session is entered without suspending, so the test of the cache and the
\* request to Solscan are one step
ResolveStart(mint) ==
    /\ cmds < MaxCalls
    /\ cmds' = cmds + 1
    /\ IF Cached(token_metadata_cache, mint)
       THEN /\ obs' = Returned(mint, token_metadata_cache[mint][1], 0, <<>>)
            /\ hist' = Append(hist, obs')
            /\ UNCHANGED <<token_metadata_cache, handlers>>
       ELSE IF mint = WrappedSol
       THEN /\ obs' = Returned(mint, SolRecord, 0, <<>>)
            /\ hist' = Append(hist, obs')
            /\ token_metadata_cache' = [token_metadata_cache EXCEPT ![mint] = <<SolRecord>>]
            /\ UNCHANGED handlers
       ELSE /\ Len(handlers) < MaxHandlers
            /\ handlers' = Append(handlers, Pending(mint, 1, <<>>))
            /\ UNCHANGED <<token_metadata_cache, obs, hist>>
    /\ UNCHANGED <<user_data, mon, tick, sent, replied, watch, cycle_pairs, durable>>

\* the call in flight h resumes with the answer r of the source it awaits:
\* it caches and returns the record of an accepted answer, goes on to the
\* next source, or after Birdeye caches and returns the fallback record
ResolveAnswer(h, r) ==
    /\ h \in 1..Len(handlers)
    /\ LET c == handlers[h]
           given == Append(c.given, r)
       IN  IF Accepts(c.source, r) \/ c.source = 7
           THEN LET record == IF Accepts(c.source, r)
                              THEN SourceRecord(c.mint, c.source, r)
                              ELSE FallbackRecord(c.mint)
                IN  /\ token_metadata_cache' =
                           [token_metadata_cache EXCEPT ![c.mint] = <<record>>]
                    /\ obs' = Returned(c.mint, record, c.source, given)
                    /\ hist' = Append(hist, obs')
                    /\ handlers' = RemoveAt(handlers, h)
           ELSE /\ handlers' = [handlers EXCEPT ![h] = Pending(c.mint, c.source + 1, given)]
                /\ UNCHANGED <<token_metadata_cache, obs, hist>>
    /\ UNCHANGED <<user_data, mon, cmds, tick, sent, replied, watch, cycle_pairs, durable>>

NextOverlap ==
    \/ \E mint \in ResolveMints : ResolveStart(mint)
    \/ \E h \in 1..MaxHandlers, r \in Answers : ResolveAnswer(h, r)

SpecOverlap == InitResolve /\ [][NextOverlap]_vars

\* ------------------------------------------------------------------------
\* parse_token_transfers applied to one transaction: obs holds the arguments
\* of the call and, once it has returned, the list it returned.
\* ------------------------------------------------------------------------

\* the sequences over S of at most n elements
SeqUpTo(S, n) == UNION {[1..k -> S] : k \in 0..n}

\* a second asset
Bonk == "DezXAZ8z7PnrnRJjz3wXBoRgixCa6xjnB7YaB1pPB263"

\* Token balance entries: of the subject W1 in two assets, and of W2, whose
\* address W1 is a proper prefix of.
BalanceEntries ==
    {[owner |-> W1, mint |-> Usdc, amount |-> 100],
     [owner |-> W1, mint |-> Usdc, amount |-> 150],
     [owner |-> W1, mint |-> Bonk, amount |-> 100],
     [owner |-> W1, mint |-> Bonk, amount |-> 0],
     [owner |-> W2, mint |-> Usdc, amount |-> 150]}

TokenSides == SeqUpTo(BalanceEntries, MaxEntries)

\* account keys as plain strings (parsed FALSE) or as objects with a pubkey
AccountKeys == {[parsed |-> q, pubkey |-> a] : q \in BOOLEAN, a \in {W1, W2}}

\* the native balances of one account before and after
NativeChanges ==
    {<<2000000000, 1999000000>>, <<9000000, 10000000>>, <<0, 1000000000>>,
     <<2000000000, 999995000>>, <<1000000000, 999995000>>}

\* the account keys with the native balances of each, or with balance lists
\* that are one entry short
NativeSides ==
    {[accountKeys |-> ks,
      preBalances |-> [i \in 1..(Len(ks) - short) |-> ch[i][1]],
      postBalances |-> [i \in 1..(Len(ks) - short) |-> ch[i][2]]] :
        ks \in SeqUpTo(AccountKeys, MaxKeys),
        ch \in [1..MaxKeys -> NativeChanges],
        short \in {0, 1}}

Transaction(meta, pre, post, native) ==
    [meta |-> meta, preTokenBalances |-> pre, postTokenBalances |-> post,
     accountKeys |-> native.accountKeys,
     preBalances |-> native.preBalances, postBalances |-> native.postBalances]

\* the native side of TxSwap, one with the subject alone, and one without
\* the subject
PlainNativeSides ==
    {[accountKeys |-> TxSwap.accountKeys, preBalances |-> TxSwap.preBalances,
      postBalances |-> TxSwap.postBalances],
     [accountKeys |-> <<[parsed |-> FALSE, pubkey |-> W1]>>,
      preBalances |-> <<9000000>>, postBalances |-> <<10000000>>],
     [accountKeys |-> <<>>, preBalances |-> <<>>, postBalances |-> <<>>]}

\* the token sides of TxSwap, none, and a purchase of a second asset
PlainTokenSides ==
    {<<TxSwap.preTokenBalances, TxSwap.postTokenBalances>>,
     <<(<<>>), (<<>>)>>,
     <<(<<>>), <<[owner |-> W1, mint |-> Bonk, amount |-> 100]>>>>}

NoCall == [tx |-> TxPay, wallet_address |-> "", returned |-> FALSE, transfers |-> <<>>]

\* the call parse_token_transfers(tx, W1)
Called(tx) == [NoCall EXCEPT !.tx = tx, !.wallet_address = W1]

\* parse_token_transfers(tx, wallet_address), from the call to the return;
\* the set all_keys is iterated in one of its orders
Infer ==
    /\ ~obs.returned
    /\ \E order \in Orders(AllKeys(obs.tx)) :
          obs' = [obs EXCEPT !.returned = TRUE,
                             !.transfers = parse_token_transfers(obs.tx, obs.wallet_address, order)]
    /\ UNCHANGED <<user_data, token_metadata_cache, mon, handlers, cmds, tick, sent, replied,
                   watch, hist, cycle_pairs, durable>>

\* The transactions: every pair of token sides with a plain native side,
\* every native side with plain token sides, and the plain ones with each
\* kind of metadata.
InitInfer ==
    /\ \/ \E pre \in TokenSides, post \in TokenSides, n \in PlainNativeSides :
             obs = Called(Transaction("present", pre, post, n))
       \/ \E t \in PlainTokenSides, n \in NativeSides :
             obs = Called(Transaction("present", t[1], t[2], n))
       \/ \E meta \in MetaKinds, t \in PlainTokenSides, n \in PlainNativeSides :
             obs = Called(Transaction(meta, t[1], t[2], n))
    /\ token_metadata_cache = [m \in Mints |-> <<>>]
    /\ user_data = <<>>
    /\ durable = <<>>
    /\ watch = <<>>
    /\ mon = Sleeping(0)
    /\ handlers = <<>>
    /\ cmds = 0
    /\ tick = 0
    /\ sent = <<>>
    /\ replied = NoReply
    /\ hist = <<>>
    /\ cycle_pairs = {}

NextInfer == Infer

SpecInfer == InitInfer /\ [][NextInfer]_vars

\* ------------------------------------------------------------------------
\* The monitor alone, on a ledger left by earlier commands: u1 tracks W1 and
\* W2, u2 tracks W1; a wallet has a stored marker or none (its registration
\* found no activity).  The observations of (u1, W1) are recorded.
\* ------------------------------------------------------------------------

Ledger(s11, s12, s21) ==
    <<[id |-> "u1",
       wallets |-> <<[address |-> W1, name |-> ShortForm(W1)],
                     [address |-> W2, name |-> GivenName]>>,
       last_signatures |-> [NoSignatures EXCEPT ![W1] = s11, ![W2] = s12]],
      [id |-> "u2",
       wallets |-> <<[address |-> W1, name |-> ShortForm(W1)]>>,
       last_signatures |-> [NoSignatures EXCEPT ![W1] = s21]]>>

InitCycles ==
    /\ user_data \in {Ledger(s11, None, "A") : s11 \in {None, "A"}}
    /\ durable = <<>>
    /\ watch = <<"u1", W1>>
    /\ InitTasks

NextCycles == Monitor

SpecCycles == InitCycles /\ [][NextCycles]_vars

\* The monitor while u2 registers W2, on a ledger left by earlier commands
\* in which u2 is a known user (it tracks W1) or is not known yet.
AddTargets == {<<"u2", W2>>}

InitAdds ==
    /\ user_data \in {Ledger("A", None, "A"), SubSeq(Ledger("A", None, "A"), 1, 1)}
    /\ durable = <<>>
    /\ watch = <<>>
    /\ InitTasks

NextAdds ==
    \/ Monitor
    \/ \E t \in AddTargets : cmds < MaxAdds /\ AddStart(t[1], t[2], GivenName)
    \/ \E i \in 1..MaxHandlers, success \in BOOLEAN : AddBalanceDone(i, success)
    \/ \E i \in 1..MaxHandlers, res \in RecentResults : AddTxDone(i, res)

SpecAdds == InitAdds /\ [][NextAdds]_vars

\* The command handlers alone, interleaved at their awaits, on the empty
\* ledger or on a ledger left by earlier commands: registrations with and
\* without a name, of valid addresses and of one that is too short.
LedgerTargets == {<<"u1", W1>>, <<"u1", W2>>, <<"u2", W1>>}

\* the bootstrap fetch fails or returns the latest transaction
BootstrapResults ==
    {r \in RecentResults :
        ~r.success \/ (r.transactions # <<>> /\ r.transactions[1].signature = "B"
                                            /\ r.transactions[1].blockTime
                                            /\ ~r.transactions[1].failed)}

\* the ledgers SpecLedger starts from
InitialLedgers == {<<>>, Ledger("A", None, "A")}

InitLedger ==
    /\ user_data \in InitialLedgers
    /\ durable = <<>>
    /\ watch = <<>>
    /\ InitTasks

NextLedger ==
    \/ \E t \in LedgerTargets, name \in {"", GivenName} : AddStart(t[1], t[2], name)
    \/ AddStart("u1", WShort, "")
    \/ \E i \in 1..MaxHandlers, success \in BOOLEAN : AddBalanceDone(i, success)
    \/ \E i \in 1..MaxHandlers, res \in BootstrapResults : AddTxDone(i, res)
    \/ \E t \in LedgerTargets : RenameWallet(t[1], t[2], GivenName)
    \/ \E t \in LedgerTargets : RemoveWallet(t[1], t[2])

SpecLedger == InitLedger /\ [][NextLedger]_vars

\* The process is stopped and started again: the module is loaded anew, so
\* user_data and token_metadata_cache are the empty dicts of lines 23 and 26
\* and no task or handler of the old process is left; what is in durable
\* storage stays.
Restart ==
    /\ cmds < MaxCmds
    /\ cmds' = cmds + 1
    /\ user_data' = <<>>
    /\ token_metadata_cache' = [m \in Mints |-> <<>>]
    /\ mon' = Sleeping(0)
    /\ handlers' = <<>>
    /\ tick' = 0
    /\ sent' = <<>>
    /\ replied' = Reply("start", None, "", None)
    /\ obs' = NoObs
    /\ hist' = <<>>
    /\ cycle_pairs' = {}
    /\ UNCHANGED <<durable, watch>>

NextRestart == Next \/ Restart

SpecRestart == Init /\ [][NextRestart]_vars

\* The bot with the scheduling of the event loop: a task whose awaited call
\* has returned is resumed, and every awaited call returns (each carries a
\* timeout).
SpecLive == Init /\ [][Next]_vars /\ WF_vars(Monitor)

\* The monitor alone with the same scheduling, on the ledger of SpecCycles:
\* the pairs stay tracked; (u1, W1) has the marker A stored or none (its
\* bootstrap fetch failed or found no activity).
SpecCyclesLive == InitCycles /\ [][NextCycles]_vars /\ WF_vars(Monitor)

\* The commands of u1 about W1 interleaved with the monitor on a ledger in
\* which u1 and u2 both track W1, each with the marker A stored.
InitShared ==
    /\ user_data = Ledger("A", None, "A")
    /\ durable = <<>>
    /\ watch = <<>>
    /\ InitTasks

NextShared == Monitor \/ (cmds < MaxShared /\ Commands)

SpecShared == InitShared /\ [][NextShared]_vars

\* ------------------------------------------------------------------------
\* Properties
\*
\* The definitions of this section that only read the observation of the
\* last step (obs, hist, sent, watch) give the properties their vocabulary;
\* those that restate a condition of the code name it where they are used.
\* ------------------------------------------------------------------------

Stored(u, a) == LastSignature(user_data, u, a)

NotifyPcs == {"await_details", "await_meta", "await_send"}

\* the step of the monitor in which a fetched marker starts a notification
Triggers == mon.pc = "await_recent" /\ mon'.pc = "await_details"

\* C1: for a tracked wallet without a stored marker, three consecutive
\* cycles that fetch a, b (b # a), b: cycle 1 hands no message and stores a,
\* cycle 2 hands exactly one message and stores b, cycle 3 hands no message
\* and leaves b stored.
C1_Scenario ==
    (/\ Len(hist) >= 4
     /\ hist[1].prev = None
     /\ hist[2].marker # hist[1].marker
     /\ hist[3].marker = hist[2].marker)
    => /\ hist[1].notified = 0 /\ hist[2].prev = hist[1].marker
       /\ hist[2].notified = 1 /\ hist[3].prev = hist[2].marker
       /\ hist[3].notified = 0 /\ hist[4].prev = hist[3].marker

C3_FirstMarkerSilent ==
    [][\A u \in Users, a \in Addrs :
          (LastSignature(user_data, u, a) = None /\ LastSignature(user_data', u, a) # None)
              => (sent' = <<>> /\ ~Triggers)]_vars

C3_Witness ==
    /\ obs.by = "monitor" /\ obs.ok /\ obs.prev = None
    /\ Stored(obs.user_id, obs.address) = obs.signature

\* C4: when the monitor fetches a marker M for a tracked wallet whose stored
\* marker is unset, the step starts no notification and afterwards the
\* stored marker of the pair is M.
C4_BaselineRecorded ==
    (/\ obs.by = "monitor" /\ obs.ok /\ obs.prev = None
     /\ Tracked(user_data, obs.user_id, obs.address))
    => /\ Stored(obs.user_id, obs.address) = obs.signature
       /\ sent = <<>>
       /\ mon.pc # "await_details"

C4_Witness ==
    /\ obs.by = "monitor" /\ obs.ok /\ obs.prev = None
    /\ Tracked(user_data, obs.user_id, obs.address)
    /\ mon.pc # "await_details"

\* C5: a monitor step that fetches the marker already stored for the pair
\* starts no notification and changes nothing in user_data.
C5_SameMarkerSilent ==
    [][(/\ mon.pc = "await_recent"
        /\ obs'.by = "monitor" /\ obs'.ok /\ obs'.signature = obs'.prev)
       => (user_data' = user_data /\ sent' = <<>> /\ ~Triggers)]_vars

C5_Witness ==
    obs.by = "monitor" /\ obs.ok /\ obs.signature = obs.prev /\ sent = <<>>

\* C6: the stored marker is the new marker from the step that detects the
\* change on, before the message is handed to the bot, and no later step of
\* the notification, the return or the failure of the delivery included,
\* changes user_data.
C6_AdvanceBeforeDelivery ==
    [][/\ Triggers => LastSignature(user_data', mon'.user_id, mon'.wallet_address)
                          = mon'.latest_signature
       /\ (mon.pc \in NotifyPcs /\ mon' # mon) => user_data' = user_data]_vars

C6_Witness ==
    /\ mon.pc = "await_send"
    /\ Stored(mon.user_id, mon.wallet_address) = mon.latest_signature

\* C7: when the detail fetch of a detected change fails, the step hands the
\* message for that change to the bot, with no movements.
C7_NotifyWithoutDetails ==
    (obs.by = "details" /\ ~obs.ok)
    => /\ mon.pc = "await_send"
       /\ Len(sent) = 1
       /\ sent[1].chat_id = obs.user_id
       /\ sent[1].wallet_address = obs.address
       /\ sent[1].signature = mon.latest_signature
       /\ sent[1].movements = <<>>

C7_Witness == obs.by = "details" /\ ~obs.ok /\ Len(sent) = 1

\* C8: a failed or empty recent-activity fetch starts no notification,
\* leaves user_data unchanged, and the cycle goes on with the next wallet.
C8_SkipOnFetchFailure ==
    [][(mon.pc = "await_recent" /\ obs'.by = "monitor" /\ ~obs'.ok)
       => /\ user_data' = user_data
          /\ sent' = <<>>
          /\ mon' = NextWallet(user_data, mon.users, mon.user_id, mon.wallets)]_vars

C8_Witness ==
    /\ obs.by = "monitor" /\ ~obs.ok
    /\ mon.pc = "await_recent" /\ mon.user_id = obs.user_id /\ mon.wallet_address # obs.address

\* the fetched transaction makes the per-wallet body raise: a change is
\* detected and the block time is null
Raises(o) == o.by = "monitor" /\ o.ok /\ o.prev # None /\ o.signature # o.prev /\ ~o.blockTime

\* C9: when the body of one pair raises, or the delivery of its message
\* fails, the cycle goes on with the next pair of its iteration.
C9_FailureIsolation ==
    [][/\ (mon.pc = "await_recent" /\ Raises(obs'))
            => mon' = NextWallet(user_data', mon.users, mon.user_id, mon.wallets)
       /\ (mon.pc = "await_send" /\ mon' # mon)
            => mon' = NextWallet(user_data', mon.users, mon.user_id, mon.wallets)]_vars

C9_Witness ==
    /\ Raises(obs)
    /\ mon.pc = "await_recent" /\ mon.user_id = obs.user_id /\ mon.wallet_address # obs.address

\* C10: the monitor never stops: whatever the gateway, the sources, the
\* delivery or the cycle itself do, another cycle always starts (tick
\* changes at the start of each cycle), and the task only ever sleeps for
\* the normal delay or for the backoff (0: before the first cycle).
C10_LoopNeverStops ==
    /\ []<>(tick = 0)
    /\ []<>(tick = 1)
    /\ [](mon.pc = "sleep" => mon.delay \in {0, NormalDelay, BackoffDelay})

C10_Witness == mon.pc = "sleep" /\ mon.delay = BackoffDelay /\ tick = 1

\* the pair whose body the monitor is in
Current == <<mon.user_id, mon.wallet_address>>

Range(seq) == {seq[i] : i \in 1..Len(seq)}

\* C11 as claimed: the pair whose body the monitor is in was tracked when
\* the cycle started, so a wallet registered during the cycle is not
\* processed in it.
C11_CycleStartSnapshot == mon.pc # "sleep" => Current \in cycle_pairs

\* C11 as amended: the users of a cycle are those known when it starts; the
\* wallets of a user are those tracked when the cycle reaches the user, and
\* nothing is added to either list afterwards.
C11_SnapshotPerUser ==
    [][(mon' # mon /\ mon'.pc # "sleep")
       => /\ IF mon.pc = "sleep"
             THEN Range(mon'.users) \cup {mon'.user_id} \subseteq UserIds(user_data)
             ELSE Range(mon'.users) \cup {mon'.user_id} \subseteq Range(mon.users) \cup {mon.user_id}
          /\ IF mon.pc = "sleep" \/ mon'.user_id # mon.user_id
             THEN WalletAddrs(mon'.wallets) \cup {mon'.wallet_address}
                      = WalletAddrs(Data(user_data', mon'.user_id).wallets)
             ELSE WalletAddrs(mon'.wallets) \cup {mon'.wallet_address}
                      \subseteq WalletAddrs(mon.wallets) \cup {mon.wallet_address}]_vars

\* a wallet registered during the cycle is processed in it
C11_Witness == mon.pc = "await_recent" /\ Current \notin cycle_pairs

\* the wallets and markers of all users in ud (a user without an entry has
\* none)
Content(ud) ==
    [u \in Users |->
        IF u \in UserIds(ud)
        THEN [wallets |-> Data(ud, u).wallets, last_signatures |-> Data(ud, u).last_signatures]
        ELSE [wallets |-> <<>>, last_signatures |-> NoSignatures]]

\* every operation is completed: no handler and no cycle is under way
AtRest == handlers = <<>> /\ mon.pc = "sleep"

\* C12: once the operations that changed the membership or a marker are
\* completed, the durable state holds the wallets and markers of all users
\* that are in memory.
C12_WriteThrough == AtRest => Content(durable) = Content(user_data)

\* C13: a start of the process keeps the state recorded before it: the
\* wallets and markers left by the completed operations of the stopped
\* process are those of the started one.
C13_StateSurvivesRestart ==
    [][(replied'.cmd = "start" /\ AtRest) => Content(user_data') = Content(user_data)]_vars

\* u has an entry for a in its wallets
Has(ud, u, a) ==
    \E i \in 1..Len(ud) :
        ud[i].id = u /\ \E j \in 1..Len(ud[i].wallets) : ud[i].wallets[j].address = a

\* the step is the first step of a command
Starts(cmd) == cmds' = cmds + 1 /\ replied'.cmd = cmd

\* C14: a registration of a pair that is already tracked replies
\* already-tracked, starts no balance check and changes nothing in the
\* ledger: the wallet set, the display name and the marker stay.
C14_AlreadyTracked ==
    [][(Starts("add") /\ Has(user_data, replied'.user_id, replied'.address))
       => /\ replied'.outcome = "already_tracked"
          /\ user_data' = user_data
          /\ handlers' = handlers]_vars

C14_Witness ==
    /\ replied.cmd = "add" /\ replied.outcome = "already_tracked"
    /\ Has(user_data, replied.user_id, replied.address)

\* everything but the reply and the count of commands
State == <<user_data, token_metadata_cache, mon, handlers, durable>>

\* C15: an unregistration of a pair that is not tracked, the user being
\* unknown or not having the address, replies not-tracked and changes
\* nothing.
C15_NotTracked ==
    [][(Starts("remove") /\ ~Has(user_data, replied'.user_id, replied'.address))
       => /\ replied'.outcome = "not_tracked"
          /\ State' = State]_vars

C15_Witness ==
    /\ replied.cmd = "remove" /\ replied.outcome = "not_tracked"
    /\ replied.user_id \notin UserIds(user_data)

\* the step in which a registration inserts its pair into the wallets
Registers(u, a) == replied'.cmd = "add" /\ ~Has(user_data, u, a) /\ Has(user_data', u, a)

\* C16: a successful unregistration leaves neither the wallet entry nor a
\* marker of the pair, and a registration of the pair starts without a
\* stored marker.
C16_UnregisterClears ==
    [][\A u \in Users, a \in Addrs :
          /\ (Starts("remove") /\ replied' = Reply("remove", u, a, "removed"))
                => (~Has(user_data', u, a) /\ LastSignature(user_data', u, a) = None)
          /\ Registers(u, a) => LastSignature(user_data', u, a) = None]_vars

\* the display name u has given to a
NameOf(ud, u, a) == WalletName(Data(ud, u).wallets, a)

\* C17: a rename of a pair that is not tracked replies not-tracked and
\* changes nothing; a rename of a tracked pair sets the display name of that
\* pair and changes nothing else: the users, every user's wallets and their
\* order, every marker and every other name stay.
C17_RenameFrame ==
    [][Starts("rename") =>
          LET u == replied'.user_id
              a == replied'.address
          IN  IF ~Has(user_data, u, a)
              THEN replied'.outcome = "not_tracked" /\ State' = State
              ELSE /\ replied'.outcome = "renamed"
                   /\ UNCHANGED <<token_metadata_cache, mon, handlers, durable>>
                   /\ UserSnapshot(user_data') = UserSnapshot(user_data)
                   /\ NameOf(user_data', u, a) = GivenName
                   /\ \A v \in Users, b \in Addrs :
                         /\ ListFor(user_data', v) = ListFor(user_data, v)
                         /\ LastSignature(user_data', v, b) = LastSignature(user_data, v, b)
                         /\ (Has(user_data, v, b) /\ <<v, b>> # <<u, a>>)
                               => NameOf(user_data', v, b) = NameOf(user_data, v, b)]_vars

\* u1 has renamed W1, being the tracker of W2 as well
C17_Witness ==
    /\ replied = Reply("rename", "u1", W1, "renamed")
    /\ Has(user_data, "u1", W2)
    /\ NameOf(user_data, "u1", W1) = GivenName
    /\ NameOf(user_data, "u1", W2) # GivenName

\* seq without its element a
Without(seq, a) == SelectSeq(seq, LAMBDA x : x # a)

\* C18: the list of a user is the order of registration: a registration
\* that makes an address tracked puts it at the end, a successful
\* unregistration takes that address out and keeps the order of the others,
\* and no other step (a rename, a registration of a tracked address, a
\* bootstrap, a refused command) changes the list.
C18_RegistrationOrder ==
    [][\A u \in Users :
          LET old == ListFor(user_data, u)
              new == ListFor(user_data', u)
          IN  \/ new = old
              \/ \E a \in Addrs :
                    /\ replied' = Reply("add", u, a, None)
                    /\ a \notin Range(old)
                    /\ new = Append(old, a)
              \/ \E a \in Addrs :
                    /\ replied' = Reply("remove", u, a, "removed")
                    /\ a \in Range(old)
                    /\ new = Without(old, a)]_vars

\* u1, who had registered W1 before W2, has renamed W2 and registered W1
\* again after unregistering it
C18_Witness ==
    /\ ListFor(user_data, "u1") = <<W2, W1>>
    /\ NameOf(user_data, "u1", W2) = GivenName
    /\ replied = Reply("add", "u1", W1, "tracking")
    /\ cmds = MaxCmds

\* C19: a registration whose balance check fails leaves the state exactly
\* as it was before the call: when the only command so far is a registration
\* and its balance check has failed, the ledger is the one the run started
\* from, with no wallet, no marker and no other entry added.
C19_FailedCheckKeepsState ==
    (cmds = 1 /\ handlers = <<>> /\ replied.cmd = "add" /\ replied.outcome = "unverified")
        => user_data \in InitialLedgers

\* the calls of hist for the asset of call i that were made before it
Earlier(i) == {k \in 1..(i - 1) : hist[k].mint = hist[i].mint}

\* C20: of two successive calls for an asset that is unresolvable (every
\* source fails or answers without a symbol), both return success = FALSE
\* with the same symbol, made of the identifier; the second call requests
\* no source, so no source is requested twice.
C20_ResolveIdempotent ==
    \A i, j \in 1..Len(hist) :
        (Earlier(i) = {} /\ hist[i].unresolvable /\ i \in Earlier(j))
            => /\ ~hist[i].record.success
               /\ ~hist[j].record.success
               /\ hist[i].record.symbol = ShortForm(hist[i].mint)
               /\ hist[j].record.symbol = hist[i].record.symbol
               /\ hist[j].attempted = {}

\* the entries of hist in which the sources were asked
Asked == {k \in 1..Len(hist) : hist[k].answers # NoAnswers}

\* the sources whose answer to call k carries a symbol
Suppliers(k) == {i \in Sources : SuppliesSymbol(i, hist[k].answers[i])}

\* C21: a call that asks the sources returns the record of the first source
\* whose answer has a non-empty symbol, and every record returned with
\* success = TRUE carries the non-empty symbol of a source that supplied it.
C21_FirstSymbolWins ==
    \A k \in Asked :
        /\ Suppliers(k) # {}
              => \E i \in Suppliers(k) :
                    /\ \A j \in Suppliers(k) : i <= j
                    /\ hist[k].record = SourceRecord(hist[k].mint, i, "sym")
        /\ hist[k].record.success
              => \E i \in Suppliers(k) : hist[k].record.symbol = SourceSymbol(i)

\* call k has returned a record with success = FALSE and the symbol made of
\* the identifier
IsFallback(k) ==
    ~hist[k].record.success /\ hist[k].record.symbol = ShortForm(hist[k].mint)

\* C22: a call that asks the sources returns the synthesized record only
\* when no source has answered with a symbol, and after it has requested
\* every source.
C22_FallbackLast ==
    \A k \in Asked :
        IsFallback(k) => (Unresolvable(hist[k].answers) /\ hist[k].attempted = Sources)

\* C23: every call returns a record; in a call that asks the sources, the
\* first source is requested, a source that fails (exception, timeout,
\* non-200 or malformed answer) is followed by a request to the next one,
\* and when all of them fail the record returned is the synthesized one.
C23_ChainSurvivesFailure ==
    /\ \A k \in 1..Len(hist) :
          /\ DOMAIN hist[k].record = {"success", "symbol", "decimals"}
          /\ hist[k].record.success \in BOOLEAN
    /\ \A k \in Asked :
          /\ 1 \in hist[k].attempted
          /\ \A i \in Sources \ {7} :
                (i \in hist[k].attempted /\ hist[k].answers[i] = "fail")
                    => i + 1 \in hist[k].attempted
          /\ hist[k].answers = AllFail
                => (hist[k].record = FallbackRecord(hist[k].mint) /\ hist[k].attempted = Sources)

\* sources have failed and a later one has supplied the record
C23_Witness ==
    \E k \in Asked, i \in 3..7 :
        /\ hist[k].answers[i - 2] = "fail"
        /\ hist[k].answers[i - 1] = "fail"
        /\ hist[k].attempted = 1..i
        /\ hist[k].record = SourceRecord(hist[k].mint, i, "sym")
        /\ hist[k].record.success

\* C24: for a transaction without balance-change metadata (the key absent,
\* null or empty) parse_token_transfers returns the empty list.
C24_NoMetaNoEvents ==
    (obs.returned /\ obs.tx.meta \in {"absent", "null", "empty"}) => obs.transfers = <<>>

\* the call has returned for the swap of TxSwap delivered without metadata
C24_Witness ==
    /\ obs.returned
    /\ obs.tx \in {[TxSwap EXCEPT !.meta = k] : k \in {"absent", "null", "empty"}}
    /\ obs.wallet_address = W1

\* the amount of asset mint that owner holds according to a list of token
\* balances (the last entry counts), 0 when the list has no entry for it
Held(bs, owner, mint) ==
    LET entries == {i \in 1..Len(bs) : bs[i].owner = owner /\ bs[i].mint = mint}
    IN  IF entries = {} THEN 0
        ELSE bs[CHOOSE i \in entries : \A j \in entries : j <= i].amount

\* the assets the subject has an entry for, before or after
AssetsOf(tx, owner) ==
    {b.mint : b \in {e \in Range(tx.preTokenBalances) \cup Range(tx.postTokenBalances) :
                        e.owner = owner}}

\* the fungible events of the returned list that are about the asset
EventsFor(mint) ==
    {i \in 1..Len(obs.transfers) : ~obs.transfers[i].is_sol /\ obs.transfers[i].mint = mint}

\* C25: for every asset the subject has an entry for in the token balances
\* before or after (a missing side counting 0), no event is returned for the
\* asset when the two amounts are equal, and otherwise exactly one, BUY for
\* an increase and SELL for a decrease, with the magnitude of the difference
\* as its amount.
C25_OneEventPerChange ==
    (obs.returned /\ HasMeta(obs.tx)) =>
        \A mint \in AssetsOf(obs.tx, obs.wallet_address) :
            LET pre == Held(obs.tx.preTokenBalances, obs.wallet_address, mint)
                post == Held(obs.tx.postTokenBalances, obs.wallet_address, mint)
            IN  IF post = pre THEN EventsFor(mint) = {}
                ELSE /\ Cardinality(EventsFor(mint)) = 1
                     /\ \A i \in EventsFor(mint) :
                           /\ obs.transfers[i].type = IF post > pre THEN "BUY" ELSE "SELL"
                           /\ obs.transfers[i].amount = Abs(post - pre)

\* the fungible events of the returned list
Fungible == {i \in 1..Len(obs.transfers) : ~obs.transfers[i].is_sol}

\* the assets of which the owner holds another amount after than before
Changed(tx, owner) ==
    {mint \in AssetsOf(tx, owner) :
        Held(tx.preTokenBalances, owner, mint) # Held(tx.postTokenBalances, owner, mint)}

\* C26: the fungible events returned are those of the entries whose owner
\* is the subject's address itself: every event is about an asset of which
\* the subject's own amount has changed, and there are no more events than
\* such assets; an entry of another owner, also of one whose address begins
\* with the subject's, gives no event.
C26_ExactOwner ==
    (obs.returned /\ HasMeta(obs.tx)) =>
        /\ \A i \in Fungible : obs.transfers[i].mint \in Changed(obs.tx, obs.wallet_address)
        /\ Cardinality(Fungible) = Cardinality(Changed(obs.tx, obs.wallet_address))

\* the native events of the returned list
Native == {i \in 1..Len(obs.transfers) : obs.transfers[i].is_sol}

\* the places of the subject in the account keys
Places == {i \in 1..Len(obs.tx.accountKeys) : obs.tx.accountKeys[i].pubkey = obs.wallet_address}
FirstPlace == CHOOSE i \in Places : \A j \in Places : i <= j

\* the call has returned for a transaction with metadata in which the
\* subject is an account with a native balance before and after
HasNativeBalances ==
    /\ obs.returned /\ HasMeta(obs.tx)
    /\ Places # {}
    /\ FirstPlace <= Len(obs.tx.preBalances) /\ FirstPlace <= Len(obs.tx.postBalances)

\* the change of the subject's native balance, in lamports
NativeDelta == obs.tx.postBalances[FirstPlace] - obs.tx.preBalances[FirstPlace]

\* exactly one native event is returned, with the direction of the change
OneNativeEvent ==
    /\ Cardinality(Native) = 1
    /\ \A i \in Native :
          obs.transfers[i].type = IF NativeDelta > 0 THEN "RECEIVE" ELSE "SEND"

\* C27: for a subject with native balances before and after, no native
\* event is returned when the change is below 0.001 native units, and
\* exactly one, RECEIVE for an increase and SEND for a decrease, when it is
\* 0.001 native units or more.
C27_DustThreshold ==
    HasNativeBalances =>
        IF Abs(NativeDelta) < DustLamports THEN Native = {} ELSE OneNativeEvent

\* C27 (amended): no native event below 0.001 native units, exactly one with
\* the direction of the change above 0.001 native units; a change of exactly
\* 0.001 native units is not covered.
C27_DustThresholdStrict ==
    HasNativeBalances =>
        /\ Abs(NativeDelta) < DustLamports => Native = {}
        /\ Abs(NativeDelta) > DustLamports => OneNativeEvent

\* a payment of 1.000005 native units out of the subject's account has been
\* reported as one SEND event
C27_Witness ==
    /\ HasNativeBalances
    /\ NativeDelta = 999995000 - 2000000000
    /\ OneNativeEvent

\* C28: for the transaction in which the subject's USDC goes from 100 to 150
\* and its native balance from 2.0 to 1.999, the list returned is the one
\* event BUY 50 USDC, without a native event.
C28_SwapScenario ==
    (obs.returned /\ obs.tx = TxSwap /\ obs.wallet_address = W1)
        => obs.transfers = <<[mint |-> Usdc, change |-> 50, type |-> "BUY", amount |-> 50,
                              is_sol |-> FALSE]>>

C28_Witness ==
    /\ obs.returned /\ obs.tx = TxSwap /\ obs.wallet_address = W1
    /\ Held(obs.tx.preTokenBalances, W1, Usdc) = 100
    /\ Held(obs.tx.postTokenBalances, W1, Usdc) = 150
    /\ NativeDelta = 0 - DustLamports

\* C29: the list returned has at most one native event, also when the
\* subject is in the account keys more than once, and the native event is
\* the last element; the subject is found whether its key is a plain string
\* or an object with the address in a field: a change above 0.001 native
\* units at its first place is reported in both shapes.
C29_NativeLast ==
    obs.returned =>
        /\ Cardinality(Native) <= 1
        /\ Native # {} => Native = {Len(obs.transfers)}
        /\ (HasNativeBalances /\ Abs(NativeDelta) > DustLamports) => Native # {}

\* the subject is in the account keys twice, first as an object, with a
\* change above the threshold at both places, and the list returned is a
\* fungible event followed by one native event
C29_Witness ==
    /\ HasNativeBalances
    /\ Cardinality(Places) = 2
    /\ Len(obs.tx.preBalances) = Len(obs.tx.accountKeys)
    /\ obs.tx.accountKeys[1].parsed /\ ~obs.tx.accountKeys[2].parsed
    /\ \A i \in Places : Abs(obs.tx.postBalances[i] - obs.tx.preBalances[i]) > DustLamports
    /\ Fungible = {1}
    /\ Native = {2}

\* the step was the return of the monitor's fetch for (u, a)
FetchedFor(u, a) == obs.by = "monitor" /\ obs.user_id = u /\ obs.address = a

\* a message about marker for (u, a) is handed to the bot
HandedFor(u, a, marker) ==
    /\ sent # <<>>
    /\ sent[1].chat_id = u /\ sent[1].wallet_address = a /\ sent[1].signature = marker

\* C30: (u1, W1) stays tracked and A is at some time the marker stored for
\* it, whether stored when the wallet was added or recorded by the monitor
\* for a wallet added with none; if from some time on the monitor's fetches
\* for it, which never cease, all succeed and return B, the marker the wallet
\* has changed to, then a message about B is eventually handed to the bot
\* for u1.
C30_EventuallyNotified ==
    (/\ <>(Stored("u1", W1) = "A")
     /\ []<>FetchedFor("u1", W1)
     /\ <>[](FetchedFor("u1", W1) => (obs.ok /\ obs.signature = "B")))
        => <>HandedFor("u1", W1, "B")

\* C31: in every reachable state, under every interleaving of the command
\* handlers and the monitor at their awaits, every address with a stored
\* marker for a user is tracked by that user.
C31_NoOrphanMarker ==
    \A u \in Users, a \in Addrs :
        LastSignature(user_data, u, a) # None => Tracked(user_data, u, a)

\* C32: the step of the monitor that hands a message about a pair to the
\* bot is taken only while the pair is tracked: after a removal made while
\* the monitor's step for the wallet was suspended in an await, no message
\* about the wallet is handed.
C32_NotifiedOnlyWhileTracked ==
    [][(mon.pc # "await_send" /\ mon'.pc = "await_send")
          => Tracked(user_data, sent'[1].chat_id, sent'[1].wallet_address)]_vars

\* the user a step acts for: the sender of the command, or the user whose
\* wallet the monitor was processing
Actor == IF replied'.cmd # "none" THEN replied'.user_id ELSE mon.user_id

\* C33: a step of a command of u or of the monitor for a wallet of u leaves
\* the entry of every other user (its wallets, their names and its markers)
\* as it was, also when both track the same address; and each user has its
\* own notification of a change of the address: a fetch of the monitor for
\* (u, w) that returns a marker different from the one stored for (u, w)
\* starts a notification, and the message handed for it is addressed to u
\* and is about w and that marker.
C33_UserIsolation ==
    [][/\ \A v \in Users \ {Actor} :
             /\ v \in UserIds(user_data') <=> v \in UserIds(user_data)
             /\ v \in UserIds(user_data) => Data(user_data', v) = Data(user_data, v)
       /\ (/\ mon.pc = "await_recent" /\ obs'.by = "monitor"
           /\ obs'.ok /\ obs'.prev # None /\ obs'.signature # obs'.prev)
          => /\ Triggers
             /\ mon'.user_id = mon.user_id /\ mon'.wallet_address = mon.wallet_address
             /\ mon'.latest_signature = obs'.signature
       /\ (mon.pc # "await_send" /\ mon'.pc = "await_send")
          => /\ Len(sent') = 1
             /\ sent'[1].chat_id = mon.user_id
             /\ sent'[1].wallet_address = mon.wallet_address
             /\ sent'[1].signature = mon.latest_signature]_vars

\* the calls for mint that have asked source i: those that have returned
\* and those in flight
AskedBy(mint, i) ==
    Cardinality({k \in 1..Len(hist) : hist[k].mint = mint /\ i \in hist[k].attempted})
    + Cardinality({h \in 1..Len(handlers) :
                      handlers[h].mint = mint /\ i <= handlers[h].source})

\* C34: also when calls for the same asset overlap, each source is asked at
\* most once for the asset, and all the calls for it return the same record.
C34_OverlapSingleLookup ==
    \A mint \in ResolveMints :
        /\ \A i \in Sources : AskedBy(mint, i) <= 1
        /\ \A j, k \in 1..Len(hist) :
               (hist[j].mint = mint /\ hist[k].mint = mint)
                   => hist[j].record = hist[k].record

TypeOK ==
    /\ cmds \in 0..MaxCmds
    /\ Len(handlers) <= MaxHandlers
    /\ mon.pc \in {"sleep", "await_recent", "await_details", "await_meta", "await_send"}
    /\ Len(sent) <= 1
    /\ Len(hist) <= MaxHist + 1

====
